---- MODULE Spec2Model ----
(***************************************************************************)
(* Iterative zodi calibration and coaddition (src/calibrate_zodi_time.py): *)
(* Coadder.run, the per-orbit fits, add_file, normalize, save_maps and the *)
(* IterativeFitter; and the SplineFitter that smooths the fitted gains and *)
(* offsets (src/orbit_calibration_2_fullsky_map/spline_fit_calibration.py).*)
(*                                                                         *)
(* Numbers are exact rationals <<n, d>> in lowest terms with d > 0; the    *)
(* pair <<0, 0>> stands for a non-finite float (inf or nan), which is what *)
(* numpy yields for a division by zero and which every later operation     *)
(* propagates.  Rounding of floats is not modelled.                        *)
(***************************************************************************)
EXTENDS Integers, Sequences, FiniteSets, TLC

\* ------------------------------------------------------------------ bounds
NPix == 4
NumOrbits == 2
Iterations == 2
MaxRefine == 2
MaxCalls == 2
FilterLen == 4
NumFitvals == 4

Pixels == 0 .. (NPix - 1)
Orbits == 0 .. (NumOrbits - 1)

\* -------------------------------------------------------------- arithmetic
Abs(n) == IF n < 0 THEN -n ELSE n

RECURSIVE GCD(_, _)
GCD(a, b) == IF b = 0 THEN a ELSE GCD(b, a % b)

NonFinite == <<0, 0>>

\* Value1 and Value2 apply an operator to the values of its arguments, each
\* computed once
Value1(a, Op(_)) == CHOOSE r \in {Op(x) : x \in {a}} : TRUE
Value2(a, b, Op(_, _)) == CHOOSE r \in {Op(x, y) : x \in {a}, y \in {b}} : TRUE

Reduce(n, d) ==
  LET g == GCD(Abs(n), Abs(d))
      s == IF d < 0 THEN -1 ELSE 1
  IN  <<(s * n) \div g, (s * d) \div g>>
Norm(n, d) == IF d = 0 THEN NonFinite ELSE Value2(n, d, Reduce)

Z(n) == <<n, 1>>
Zero == Z(0)
One == Z(1)

IsFinite(a) == a[2] # 0

Plus(a, b) == IF IsFinite(a) /\ IsFinite(b)
              THEN Norm(a[1] * b[2] + b[1] * a[2], a[2] * b[2]) ELSE NonFinite
Minus(a, b) == IF IsFinite(a) /\ IsFinite(b)
               THEN Norm(a[1] * b[2] - b[1] * a[2], a[2] * b[2]) ELSE NonFinite
Times(a, b) == IF IsFinite(a) /\ IsFinite(b)
               THEN Norm(a[1] * b[1], a[2] * b[2]) ELSE NonFinite
\* numpy float division: a zero divisor gives inf or nan, never an exception
Over(a, b) == IF IsFinite(a) /\ IsFinite(b) /\ b[1] # 0
              THEN Norm(a[1] * b[2], a[2] * b[1]) ELSE NonFinite
\* comparisons with a non-finite operand are false, as for nan
Less(a, b) == IsFinite(a) /\ IsFinite(b) /\ a[1] * b[2] < b[1] * a[2]
Magnitude(a) == <<Abs(a[1]), a[2]>>

RAdd(a, b) == Value2(a, b, Plus)
RSub(a, b) == Value2(a, b, Minus)
RMul(a, b) == Value2(a, b, Times)
RDiv(a, b) == Value2(a, b, Over)
RLt(a, b) == Value2(a, b, Less)
RAbs(a) == Value1(a, Magnitude)
RSquare(a) == RMul(a, a)

RECURSIVE RSumFrom(_, _)
RSumFrom(s, k) == IF k > Len(s) THEN Zero ELSE RAdd(s[k], RSumFrom(s, k + 1))
RSum(s) == RSumFrom(s, 1)
RMean(s) == RDiv(RSum(s), Z(Len(s)))

ZeroMap == [p \in Pixels |-> Zero]

\* the array s with every element computed (a numpy array holds values, not
\* expressions)
Array(s) == s \o <<>>

\* ------------------------------------------------------------ orbit files
\* The csv file of one orbit (columns pixel_value, pixel_unc,
\* hp_pixel_index) and the zodi template map of the same orbit.
OrbitFile(vals, uncs, pix, zodi) ==
  [pixel_value |-> [k \in 1 .. Len(vals) |-> Z(vals[k])],
   pixel_unc |-> [k \in 1 .. Len(uncs) |-> Z(uncs[k])],
   hp_pixel_index |-> pix,
   zodi |-> [p \in Pixels |-> IF p \in DOMAIN zodi THEN Z(zodi[p]) ELSE Zero]]

OrbitLib ==
  { OrbitFile(<<1, 2>>, <<1, 1>>, <<0, 1>>, (0 :> 1) @@ (1 :> 2)),
    OrbitFile(<<5, 7>>, <<2, 2>>, <<1, 2>>, (1 :> 1) @@ (2 :> 2)),
    OrbitFile(<<1, 1>>, <<0, 0>>, <<2, 3>>, (2 :> 1) @@ (3 :> 1)),
    OrbitFile(<<4, 3, 1>>, <<1, 0, 2>>, <<3, 0, 2>>,
              (0 :> 1) @@ (2 :> 2) @@ (3 :> 1)) }

VARIABLES
  files,             \* orbit number -> its csv file and zodi template map
  moon_stripe_inds,  \* pixels set in the stripe mask
  galaxy_mask_inds,  \* pixels set in the galaxy mask
  pc, it, iter, fit_pos, add_pos, order,
  gains, offsets, orbit_sizes, all_gains, all_offsets,
  numerator, denominator, fsm, unc_fsm, fsm_prev,
  saved,             \* the maps written by save_map, in order
  log,               \* the calls run has made, in order
  fit_input,         \* orbit number -> the data handed to its latest fit
  fit_calls,         \* orbit number -> minimizer calls of its latest fit
  nonfinite,         \* the places where a non-finite value was computed
  u,                 \* the latest direct call of a method and its result
  theta,             \* pixel -> its colatitude from hp.pix2ang, in units of pi
  sf                 \* the SplineFitter: the fit values it loads and its results

vars == <<files, moon_stripe_inds, galaxy_mask_inds, pc, it, iter, fit_pos,
          add_pos, order, gains, offsets, orbit_sizes, all_gains, all_offsets,
          numerator, denominator, fsm, unc_fsm, fsm_prev, saved, log,
          fit_input, fit_calls, nonfinite, u, theta, sf>>

\* ------------------------------------------------------- loading, masking
\* the colatitudes hp.pix2ang can hand to mask_galaxy: pixel 0 in the middle
\* of the band and the others outside it; or pixels 0 and 1 on the two ends
\* of the band and the others outside it
ThetaLib ==
  { [p \in Pixels |-> IF p = 0 THEN Norm(5, 10) ELSE Norm(p, 10)],
    [p \in Pixels |-> IF p = 0 THEN Norm(4, 10)
                      ELSE IF p = 1 THEN Norm(6, 10) ELSE Norm(p + 6, 10)] }

mask_galaxy_closed(th) ==
  {p \in Pixels : ~RLt(th[p], Norm(4, 10)) /\ ~RLt(Norm(6, 10), th[p])}

\* mask = (np.pi * 0.4 < theta) & (theta < 0.6 * np.pi); the pixels set
mask_galaxy(th) ==
  {p \in Pixels : RLt(Norm(4, 10), th[p]) /\ RLt(th[p], Norm(6, 10))}

load_orbit_data(orbit_num) == files[orbit_num]

RECURSIVE KeptMoonFrom(_, _)
KeptMoonFrom(pixel_inds, k) ==
  IF k > Len(pixel_inds) THEN <<>>
  ELSE IF pixel_inds[k] \in moon_stripe_inds
       THEN KeptMoonFrom(pixel_inds, k + 1)
       ELSE <<k>> \o KeptMoonFrom(pixel_inds, k + 1)
Kept_moon_only(pixel_inds) == KeptMoonFrom(pixel_inds, 1)

\* the positions of the samples kept: those not in entries_to_mask
RECURSIVE KeptFrom(_, _)
KeptFrom(pixel_inds, k) ==
  IF k > Len(pixel_inds) THEN <<>>
  ELSE IF pixel_inds[k] \in moon_stripe_inds \/ pixel_inds[k] \in galaxy_mask_inds
       THEN KeptFrom(pixel_inds, k + 1)
       ELSE <<k>> \o KeptFrom(pixel_inds, k + 1)
Kept(pixel_inds) == KeptFrom(pixel_inds, 1)

Masked(arr, pixel_inds) ==
  LET keep == Kept(pixel_inds) IN Array([k \in 1 .. Len(keep) |-> arr[keep[k]]])

RECURSIVE Ascending(_)
Ascending(S) ==
  IF S = {} THEN <<>>
  ELSE LET m == CHOOSE x \in S : \A y \in S : x <= y
       IN  <<m>> \o Ascending(S \ {m})

\* mapdata[pixels.astype(bool)]: the template values of the orbit's pixels in
\* ascending pixel order
load_zodi_orbit(orbit_num, pixel_inds) ==
  LET sel == Ascending({pixel_inds[k] : k \in 1 .. Len(pixel_inds)})
  IN  Array([k \in 1 .. Len(sel) |-> files[orbit_num].zodi[sel[k]]])

\* ------------------------------------------------------- IterativeFitter
AnyNonFinite(arr) == \E k \in 1 .. Len(arr) : ~IsFinite(arr[k])

chi_sq(params, x_data, y_data, sigma) ==
  LET residual == [k \in 1 .. Len(x_data) |->
                     RSub(x_data[k], RAdd(RMul(y_data[k], params[1]), params[2]))]
      weighted_residual == [k \in 1 .. Len(x_data) |->
                              RDiv(residual[k], RSquare(RMean(sigma)))]
  IN  IF Len(x_data) > 0
      THEN RDiv(RSum([k \in 1 .. Len(x_data) |-> RSquare(weighted_residual[k])]),
                Z(Len(x_data)))
      ELSE Zero

init_gain == One
init_offset == Zero

\* scipy's minimize(method='Nelder-Mead') is a direct search from the initial
\* guess that moves to a point only when the cost there is strictly lower.
\* The points it can reach are a bounded grid, tried in order: the result is
\* the first point of least cost, and with a cost that compares with nothing
\* (non-finite) the search never moves and returns the initial guess.
FitCandidates ==
  << <<Z(2), Z(3)>>, <<Z(2), Zero>>, <<One, Z(3)>>, <<Z(-1), Zero>>, <<Z(-1), Z(3)>> >>

SearchPoints == <<<<init_gain, init_offset>>>> \o FitCandidates

FirstLeast(cost) ==
  SearchPoints[CHOOSE c \in 1 .. Len(SearchPoints) :
                 /\ \A d \in 1 .. Len(SearchPoints) : ~Less(cost[d], cost[c])
                 /\ \A d \in 1 .. (c - 1) : Less(cost[c], cost[d])]

fit_to_zodi(orbit_data, zodi_data, orbit_uncs) ==
  Value1(Array([c \in 1 .. Len(SearchPoints) |->
                  chi_sq(SearchPoints[c], orbit_data, zodi_data, orbit_uncs)]),
         FirstLeast)

\* template: self.zodi_data
adjust_data(gain, offset, data, template) ==
  LET residual == [k \in 1 .. Len(data) |->
                     RSub(RDiv(RSub(data[k], offset), gain), template[k])]
  IN  Array([k \in 1 .. Len(data) |-> RSub(data[k], RMul(gain, residual[k]))])

\* one pass of iterate_fit's while loop on prev, the state the passes before
\* left: the data to fit, the latest gain and offset, the count of minimizer
\* calls, and the places where a non-finite value was computed
Pass(prev, self_zodi_data, self_raw_uncs) ==
  LET Fitted(popt) ==
        LET Adjusted(new_data) ==
              [data |-> new_data, gain |-> popt[1], offset |-> popt[2],
               calls |-> prev.calls + 1, raised |-> FALSE,
               nonfinite |-> prev.nonfinite
                 \cup (IF IsFinite(chi_sq(popt, prev.data, self_zodi_data,
                                          self_raw_uncs))
                       THEN {} ELSE {"chi_sq"})
                 \cup (IF AnyNonFinite(new_data) THEN {"adjust_data"} ELSE {})]
        IN  Value1(adjust_data(popt[1], popt[2], prev.data, self_zodi_data),
                   Adjusted)
  IN  Value1(fit_to_zodi(prev.data, self_zodi_data, self_raw_uncs), Fitted)

\* the while loop of iterate_fit, n passes from the raw data.  raised: with
\* n = 0 the return statement reads gain and offset before any assignment, an
\* UnboundLocalError
Passes(self_zodi_data, self_raw_data, self_raw_uncs, n) ==
  LET round[pass \in 0 .. n] ==
        IF pass = 0
        THEN [data |-> self_raw_data, gain |-> Zero, offset |-> Zero, calls |-> 0,
              raised |-> TRUE, nonfinite |-> {}]
        ELSE CHOOSE r \in {Pass(prev, self_zodi_data, self_raw_uncs) :
                             prev \in {round[pass - 1]}} : TRUE
      Result(last) == [gain |-> last.gain, offset |-> last.offset,
                       calls |-> last.calls, raised |-> last.raised,
                       nonfinite |-> last.nonfinite]
  IN  Value1(round[n], Result)

NoFit == [gain |-> Zero, offset |-> Zero, calls |-> 0, raised |-> FALSE,
          nonfinite |-> {}]

iterate_fit_always(self_zodi_data, self_raw_data, self_raw_uncs, n) ==
  Passes(self_zodi_data, self_raw_data, self_raw_uncs, n)

iterate_fit(self_zodi_data, self_raw_data, self_raw_uncs, n) ==
  IF Len(self_raw_data) > 0
  THEN Passes(self_zodi_data, self_raw_data, self_raw_uncs, n)
  ELSE NoFit

\* --------------------------------------------------------------- Coadder
map_file == "fullskymap_band3_iter"
unc_file == "fullskymap_unc_band3_iter"

\* FullSkyMap(filename, 256): a zero-filled map with its iteration-numbered name
set_output_filenames(n) ==
  [fsm |-> [file |-> <<map_file, n>>, mapdata |-> ZeroMap],
   unc_fsm |-> [file |-> <<unc_file, n>>, mapdata |-> ZeroMap]]

\* the data fit_initial_orbit hands to the fitter
initial_fit_data(orbit_num) ==
  LET f == load_orbit_data(orbit_num)
  IN  Masked(f.pixel_value, f.hp_pixel_index)

adjusted_fit_data_unscaled(orbit_num) ==
  LET f == load_orbit_data(orbit_num)
      pixel_inds == f.hp_pixel_index
      orbit_data_masked == Masked(f.pixel_value, pixel_inds)
      prev_itermap == [k \in 1 .. Len(pixel_inds) |-> fsm_prev.mapdata[pixel_inds[k]]]
      t_gal == Masked(prev_itermap, pixel_inds)
  IN  Array([k \in 1 .. Len(orbit_data_masked) |->
               RSub(orbit_data_masked[k], t_gal[k])])

\* the data fit_adjusted_orbit hands to the fitter: orbit_data_adj
adjusted_fit_data(orbit_num) ==
  LET f == load_orbit_data(orbit_num)
      pixel_inds == f.hp_pixel_index
      orbit_data_masked == Masked(f.pixel_value, pixel_inds)
      prev_itermap == [k \in 1 .. Len(pixel_inds) |-> fsm_prev.mapdata[pixel_inds[k]]]
      prev_itermap_masked == Masked(prev_itermap, pixel_inds)
      t_gal == [k \in 1 .. Len(prev_itermap_masked) |->
                  RMul(prev_itermap_masked[k], gains[orbit_num])]
  IN  Array([k \in 1 .. Len(orbit_data_masked) |->
               RSub(orbit_data_masked[k], t_gal[k])])

\* the rest of fit_initial_orbit and fit_adjusted_orbit, which differ only in
\* the data fitted: the fit, the diagnostic arrays (calibrated data, diff, zs)
\* and the three stores
FitAndStore(orbit_num, data_to_fit) ==
  LET f == load_orbit_data(orbit_num)
      pixel_inds == f.hp_pixel_index
      orbit_uncs_masked == Masked(f.pixel_unc, pixel_inds)
      zodi_data == load_zodi_orbit(orbit_num, pixel_inds)
      zodi_data_masked == Masked(zodi_data, pixel_inds)
  IN  \E r \in {iterate_fit(zodi_data_masked, data_to_fit, orbit_uncs_masked, 1)} :
        LET calibrated == [k \in 1 .. Len(data_to_fit) |->
                             RDiv(RSub(data_to_fit[k], r.offset), r.gain)]
            zs == [k \in 1 .. Len(f.pixel_value) |->
                     RSub(RDiv(RSub(f.pixel_value[k], r.offset), r.gain),
                          zodi_data[k])]
        IN  /\ gains' = [gains EXCEPT ![orbit_num] = r.gain]
            /\ offsets' = [offsets EXCEPT ![orbit_num] = r.offset]
            /\ orbit_sizes' = [orbit_sizes EXCEPT ![orbit_num] = Len(zodi_data_masked)]
            /\ fit_input' = [fit_input EXCEPT ![orbit_num] = data_to_fit]
            /\ fit_calls' = [fit_calls EXCEPT ![orbit_num] = r.calls]
            /\ nonfinite' = nonfinite \cup r.nonfinite
                 \cup (IF AnyNonFinite(calibrated) \/ AnyNonFinite(zs)
                       THEN {"calibrated"} ELSE {})

Event(op, orbit_num) == [op |-> op, iter |-> iter, orbit |-> orbit_num]

\* one pass of "for i in range(num_orbits): self.fit_orbit(i)"; order is
\* 0, 1, ... in run
FitStep(orbit_num, data_to_fit) ==
  /\ FitAndStore(orbit_num, data_to_fit)
  /\ log' = Append(log, Event("fit", orbit_num))
  /\ fit_pos' = fit_pos + 1
  /\ pc' = IF fit_pos + 1 = NumOrbits THEN "archive" ELSE "fit"
  /\ UNCHANGED <<files, moon_stripe_inds, galaxy_mask_inds, it, iter, add_pos,
                 order, all_gains, all_offsets, numerator, denominator, fsm,
                 unc_fsm, fsm_prev, saved, u, theta, sf>>

fit_initial_orbit ==
  /\ pc = "fit" /\ fit_pos < NumOrbits /\ iter = 0
  /\ FitStep(order[fit_pos + 1], initial_fit_data(order[fit_pos + 1]))

fit_adjusted_orbit ==
  /\ pc = "fit" /\ fit_pos < NumOrbits /\ iter # 0
  /\ FitStep(order[fit_pos + 1], adjusted_fit_data(order[fit_pos + 1]))

\* all_gains.append(self.gains.copy()); all_offsets.append(...)
archive_fits ==
  /\ pc = "archive"
  /\ all_gains' = Append(all_gains, gains)
  /\ all_offsets' = Append(all_offsets, offsets)
  /\ log' = Append(log, Event("archive", -1))
  /\ add_pos' = 0
  /\ pc' = "add"
  /\ UNCHANGED <<files, moon_stripe_inds, galaxy_mask_inds, it, iter, fit_pos,
                 order, gains, offsets, orbit_sizes, numerator, denominator,
                 fsm, unc_fsm, fsm_prev, saved, fit_input, fit_calls,
                 nonfinite, u, theta, sf>>

\* zs_data before the floor: (orbit_data_masked - offset)/gain minus the
\* masked template
residuals(orbit_num, gain, offset) ==
  LET f == load_orbit_data(orbit_num)
      pixel_inds == f.hp_pixel_index
      orbit_data_masked == Masked(f.pixel_value, pixel_inds)
      zodi_data_masked == Masked(load_zodi_orbit(orbit_num, pixel_inds), pixel_inds)
  IN  Array([k \in 1 .. Len(orbit_data_masked) |->
               RSub(RDiv(RSub(orbit_data_masked[k], offset), gain),
                    zodi_data_masked[k])])

unfloored(zs) == zs

\* zs_data[zs_data < 0.0] = 0.0
floored(zs) ==
  Array([k \in 1 .. Len(zs) |-> IF RLt(zs[k], Zero) THEN Zero ELSE zs[k]])

\* the body of add_file's if: buf[pixel_inds_masked] += contribution.  numpy
\* applies an indexed += once per listed pixel (for a pixel listed twice the
\* last listed sample is the one added).
accumulate(buf, orbit_num, gain, offset) ==
  LET f == load_orbit_data(orbit_num)
      pixel_inds == f.hp_pixel_index
      orbit_uncs_masked == Masked(f.pixel_unc, pixel_inds)
      pixel_inds_masked == Masked(pixel_inds, pixel_inds)
      n == Len(pixel_inds_masked)
      cal_uncs == Array([k \in 1 .. n |-> RDiv(orbit_uncs_masked[k], RAbs(gain))])
      zs_data == floored(residuals(orbit_num, gain, offset))
      num_add == Array([k \in 1 .. n |-> IF cal_uncs[k] # Zero
                                         THEN RDiv(zs_data[k], RSquare(cal_uncs[k]))
                                         ELSE Zero])
      den_add == Array([k \in 1 .. n |-> IF cal_uncs[k] # Zero
                                         THEN RDiv(One, RSquare(cal_uncs[k]))
                                         ELSE Zero])
      Hits(p) == {k \in 1 .. n : pixel_inds_masked[k] = p}
      Last(p) == CHOOSE k \in Hits(p) : \A m \in Hits(p) : m <= k
  IN  [numerator |-> [p \in Pixels |->
                        IF Hits(p) = {} THEN buf.numerator[p]
                        ELSE RAdd(buf.numerator[p], num_add[Last(p)])],
       denominator |-> [p \in Pixels |->
                          IF Hits(p) = {} THEN buf.denominator[p]
                          ELSE RAdd(buf.denominator[p], den_add[Last(p)])]]

add_file_unguarded(buf, orbit_num, gain, offset) ==
  accumulate(buf, orbit_num, gain, offset)

\* add_file on the buffers buf (self.numerator, self.denominator); the test
\* on the uncertainties reads the unmasked column
add_file(buf, orbit_num, gain, offset) ==
  LET orbit_uncs == load_orbit_data(orbit_num).pixel_unc
  IN  IF (\E k \in 1 .. Len(orbit_uncs) : orbit_uncs[k] # Zero) /\ gain # Zero
      THEN accumulate(buf, orbit_num, gain, offset)
      ELSE buf

Buffers == [numerator |-> numerator, denominator |-> denominator]

normalize_map_unguarded ==
  [p \in Pixels |-> RDiv(numerator[p], denominator[p])]

\* np.divide(numerator, denominator, where=denominator != 0, out=zeros)
normalize_map ==
  [p \in Pixels |-> IF denominator[p] # Zero
                    THEN RDiv(numerator[p], denominator[p]) ELSE Zero]

\* np.divide(1, denominator, where=denominator != 0, out=zeros)
normalize_unc ==
  [p \in Pixels |-> IF denominator[p] # Zero
                    THEN RDiv(One, denominator[p]) ELSE Zero]

\* one pass of "for j in range(num_orbits): self.add_file(j, gains[j], offsets[j])"
add_orbit ==
  /\ pc = "add" /\ add_pos < NumOrbits
  /\ LET buf == add_file(Buffers, add_pos, gains[add_pos], offsets[add_pos])
     IN  /\ numerator' = buf.numerator
         /\ denominator' = buf.denominator
  /\ log' = Append(log, Event("add", add_pos))
  /\ add_pos' = add_pos + 1
  /\ pc' = IF add_pos + 1 = NumOrbits THEN "normalize" ELSE "add"
  /\ UNCHANGED <<files, moon_stripe_inds, galaxy_mask_inds, it, iter, fit_pos,
                 order, gains, offsets, orbit_sizes, all_gains, all_offsets,
                 fsm, unc_fsm, fsm_prev, saved, fit_input, fit_calls,
                 nonfinite, u, theta, sf>>

normalize ==
  /\ pc = "normalize"
  /\ fsm' = [fsm EXCEPT !.mapdata = normalize_map]
  /\ unc_fsm' = [unc_fsm EXCEPT !.mapdata = normalize_unc]
  /\ log' = Append(log, Event("normalize", -1))
  /\ pc' = "save"
  /\ UNCHANGED <<files, moon_stripe_inds, galaxy_mask_inds, it, iter, fit_pos,
                 add_pos, order, gains, offsets, orbit_sizes, all_gains,
                 all_offsets, numerator, denominator, fsm_prev, saved,
                 fit_input, fit_calls, nonfinite, u, theta, sf>>

save_maps ==
  /\ pc = "save"
  /\ saved' = saved \o <<fsm, unc_fsm>>
  /\ log' = Append(log, Event("save", -1))
  /\ pc' = "advance"
  /\ UNCHANGED <<files, moon_stripe_inds, galaxy_mask_inds, it, iter, fit_pos,
                 add_pos, order, gains, offsets, orbit_sizes, all_gains,
                 all_offsets, numerator, denominator, fsm, unc_fsm, fsm_prev,
                 fit_input, fit_calls, nonfinite, u, theta, sf>>

next_iteration_same_iter ==
  /\ pc = "advance"
  /\ fsm_prev' = fsm
  /\ iter' = iter
  /\ fsm' = set_output_filenames(iter).fsm
  /\ unc_fsm' = set_output_filenames(iter).unc_fsm
  /\ it' = it + 1
  /\ fit_pos' = 0
  /\ log' = Append(log, Event("advance", -1))
  /\ pc' = IF it + 1 < Iterations THEN "fit" ELSE "done"
  /\ UNCHANGED <<files, moon_stripe_inds, galaxy_mask_inds, add_pos, order,
                 gains, offsets, orbit_sizes, all_gains, all_offsets,
                 numerator, denominator, saved, fit_input, fit_calls,
                 nonfinite, u, theta, sf>>

\* self.fsm_prev = self.fsm; self.iter += 1; self.set_output_filenames(); the
\* evolution plots; then the next pass of "for it in range(iterations)"
next_iteration ==
  /\ pc = "advance"
  /\ fsm_prev' = fsm
  /\ iter' = iter + 1
  /\ fsm' = set_output_filenames(iter + 1).fsm
  /\ unc_fsm' = set_output_filenames(iter + 1).unc_fsm
  /\ it' = it + 1
  /\ fit_pos' = 0
  /\ log' = Append(log, Event("advance", -1))
  /\ pc' = IF it + 1 < Iterations THEN "fit" ELSE "done"
  /\ UNCHANGED <<files, moon_stripe_inds, galaxy_mask_inds, add_pos, order,
                 gains, offsets, orbit_sizes, all_gains, all_offsets,
                 numerator, denominator, saved, fit_input, fit_calls,
                 nonfinite, u, theta, sf>>

\* ------------------------------------------------- direct calls of methods
\* A caller that holds a constructed Coadder and calls add_file, normalize,
\* IterativeFitter.chi_sq and IterativeFitter.iterate_fit with arguments of
\* its own choice.
CallGains == {Zero, Z(2)}
CallOffsets == {Zero, Z(3)}
CallParams == {<<One, Zero>>, <<Z(2), Z(3)>>, <<Z(-1), Zero>>}

NoCall == [op |-> "none", orbit |-> 0, gain |-> Zero, offset |-> Zero, n |-> 0,
           params |-> <<One, Zero>>, calls |-> 0, cost |-> Zero, fit |-> NoFit,
           array |-> <<>>, weights |-> <<>>, size |-> 0, out |-> <<>>]

Untouched == <<files, moon_stripe_inds, galaxy_mask_inds, it, iter, fit_pos,
               add_pos, order, gains, offsets, orbit_sizes, all_gains,
               all_offsets, fsm_prev, saved, log, fit_input, fit_calls,
               nonfinite, theta, sf>>

call_add_file ==
  /\ pc = "direct" /\ u.calls < MaxCalls
  /\ \E orbit_num \in Orbits, gain \in CallGains, offset \in CallOffsets :
       LET buf == add_file(Buffers, orbit_num, gain, offset)
       IN  /\ numerator' = buf.numerator
           /\ denominator' = buf.denominator
           /\ u' = [NoCall EXCEPT !.op = "add_file", !.orbit = orbit_num,
                                  !.gain = gain, !.offset = offset,
                                  !.calls = u.calls + 1]
  /\ UNCHANGED <<pc, fsm, unc_fsm>>
  /\ UNCHANGED Untouched

call_normalize ==
  /\ pc = "direct"
  /\ fsm' = [fsm EXCEPT !.mapdata = normalize_map]
  /\ unc_fsm' = [unc_fsm EXCEPT !.mapdata = normalize_unc]
  /\ u' = [NoCall EXCEPT !.op = "normalize", !.calls = u.calls]
  /\ pc' = "returned"
  /\ UNCHANGED <<numerator, denominator>>
  /\ UNCHANGED Untouched

call_load_zodi_orbit ==
  /\ pc = "direct" /\ u.calls = 0
  /\ \E orbit_num \in Orbits :
       u' = [NoCall EXCEPT !.op = "load_zodi_orbit", !.orbit = orbit_num,
                           !.out = load_zodi_orbit(orbit_num,
                                     load_orbit_data(orbit_num).hp_pixel_index)]
  /\ pc' = "returned"
  /\ UNCHANGED <<numerator, denominator, fsm, unc_fsm>>
  /\ UNCHANGED Untouched

\* element i of a numpy array, counted from 0
At(arr, i) == arr[i + 1]

\* np.roll(arr, shift): element i of the result is element i - shift of arr
roll(arr, shift) ==
  [k \in 1 .. Len(arr) |-> At(arr, ((k - 1) - shift) % Len(arr))]

\* the array window (or weights_window) that weighted_mean_filter_wraparound
\* fills for index p from arr
filter_window(arr, size, p) ==
  LET n == Len(arr)
      step == size \div 2
      undershoot == step - p
      overshoot == p + step + 1 - n
      arr_roll == roll(arr, overshoot)
      lower(w) == IF p - step < 0
                  THEN IF w < undershoot THEN At(arr, n - undershoot + w)
                       ELSE At(arr, w - undershoot)
                  ELSE At(arr, p - step + w)
      upper(w) == IF p + step + 1 > n
                  THEN At(arr_roll, n - (size - step) + (w - step))
                  ELSE At(arr, p + (w - step))
  IN  Array([k \in 1 .. size |-> IF k - 1 < step THEN lower(k - 1) ELSE upper(k - 1)])

\* np.average(window, weights=weights_window / np.sum(weights_window))
weighted_average(window, weights_window) ==
  RDiv(RSum([k \in 1 .. Len(window) |-> RMul(window[k], weights_window[k])]),
       RSum(weights_window))

weighted_mean_filter_wraparound(array, weights, size) ==
  Array([k \in 1 .. Len(array) |->
           weighted_average(filter_window(array, size, k - 1),
                            filter_window(weights, size, k - 1))])

\* arrays, weights and odd window sizes for a call of the filter
FilterArrays ==
  { [k \in 1 .. FilterLen |-> Z(k * k)], [k \in 1 .. FilterLen |-> Z(10 - k)] }
FilterWeights ==
  { [k \in 1 .. FilterLen |-> One], [k \in 1 .. FilterLen |-> Z(k)] }
FilterSizes == {size \in 1 .. FilterLen : size % 2 = 1}

call_weighted_mean_filter_wraparound ==
  /\ pc = "direct" /\ u.calls = 0
  /\ \E array \in FilterArrays, weights \in FilterWeights, size \in FilterSizes :
       u' = [NoCall EXCEPT !.op = "weighted_mean_filter_wraparound",
                           !.array = array, !.weights = weights, !.size = size,
                           !.out = weighted_mean_filter_wraparound(array, weights, size)]
  /\ pc' = "returned"
  /\ UNCHANGED <<numerator, denominator, fsm, unc_fsm>>
  /\ UNCHANGED Untouched

\* the template, data and uncertainties of an orbit as the fits build them
FitterArgs(orbit_num) ==
  LET f == load_orbit_data(orbit_num)
  IN  [zodi_data |-> Masked(load_zodi_orbit(orbit_num, f.hp_pixel_index),
                            f.hp_pixel_index),
       raw_data |-> Masked(f.pixel_value, f.hp_pixel_index),
       raw_uncs |-> Masked(f.pixel_unc, f.hp_pixel_index)]

call_chi_sq ==
  /\ pc = "direct" /\ u.calls = 0
  /\ \E orbit_num \in Orbits, params \in CallParams :
       LET a == FitterArgs(orbit_num)
       IN  u' = [NoCall EXCEPT !.op = "chi_sq", !.orbit = orbit_num,
                               !.params = params,
                               !.cost = chi_sq(params, a.raw_data, a.zodi_data,
                                               a.raw_uncs)]
  /\ pc' = "returned"
  /\ UNCHANGED <<numerator, denominator, fsm, unc_fsm>>
  /\ UNCHANGED Untouched

call_iterate_fit ==
  /\ pc = "direct" /\ u.calls = 0
  /\ \E orbit_num \in Orbits, n \in 0 .. MaxRefine :
       LET a == FitterArgs(orbit_num)
       IN  u' = [NoCall EXCEPT !.op = "iterate_fit", !.orbit = orbit_num,
                               !.n = n,
                               !.fit = iterate_fit(a.zodi_data, a.raw_data,
                                                   a.raw_uncs, n)]
  /\ pc' = "returned"
  /\ UNCHANGED <<numerator, denominator, fsm, unc_fsm>>
  /\ UNCHANGED Untouched

\* ---------------------------------------------------------- SplineFitter
\* (src/orbit_calibration_2_fullsky_map/spline_fit_calibration.py)
\* np.median: the middle element of the sorted array, or the mean of the two
\* middle elements
median(arr) ==
  LET n == Len(arr)
      Below(x) == Cardinality({k \in 1 .. n : RLt(arr[k], x)})
      Above(x) == Cardinality({k \in 1 .. n : RLt(x, arr[k])})
      \* the element at 0-based rank r of the sorted array
      Ranked(r) == CHOOSE x \in {arr[k] : k \in 1 .. n} :
                     Below(x) <= r /\ Above(x) <= n - 1 - r
  IN  IF n % 2 = 1 THEN Ranked(n \div 2)
      ELSE RDiv(RAdd(Ranked(n \div 2 - 1), Ranked(n \div 2)), Z(2))

beyond_tenth(dev_sq, variance) ==
  variance # Zero /\ RLt(variance, RMul(Z(100), dev_sq))

\* |z| > 1 for a deviation and a variance: |dev| / sqrt(variance) > 1; with
\* variance 0 the z-score is nan, which compares False
beyond_one(dev_sq, variance) ==
  variance # Zero /\ RLt(variance, dev_sq)

\* np.abs(stats.zscore(a)) > 1, the z-score against the mean and the
\* population standard deviation of a
outlier_mask(a) ==
  LET mean == RMean(a)
      dev_sq == Array([k \in 1 .. Len(a) |-> RSquare(RSub(a[k], mean))])
      variance == RMean(dev_sq)
  IN  Array([k \in 1 .. Len(a) |-> beyond_one(dev_sq[k], variance)])

\* arr[~mask]
RECURSIVE UnmaskedFrom(_, _)
UnmaskedFrom(mask, k) ==
  IF k > Len(mask) THEN <<>>
  ELSE IF mask[k] THEN UnmaskedFrom(mask, k + 1)
       ELSE <<k>> \o UnmaskedFrom(mask, k + 1)
Unmasked(arr, mask) ==
  LET keep == UnmaskedFrom(mask, 1) IN Array([k \in 1 .. Len(keep) |-> arr[keep[k]]])

clean_data(all_gains_, all_offsets_, all_mjd_vals) ==
  LET median_mjd_vals == Array([k \in 1 .. Len(all_mjd_vals) |-> median(all_mjd_vals[k])])
      mask_gains == outlier_mask(all_gains_)
      mask_offsets == outlier_mask(all_offsets_)
  IN  [times_gain_masked |-> Unmasked(median_mjd_vals, mask_gains),
       times_offset_masked |-> Unmasked(median_mjd_vals, mask_offsets),
       gains_masked |-> Unmasked(all_gains_, mask_gains),
       offsets_masked |-> Unmasked(all_offsets_, mask_offsets)]

\* the moon-stripe intervals of fit_spline, for the gains and for the offsets
GainStripes ==
  << <<55200, 55205>>, <<55218, 55224>>, <<55230, 55236>>, <<55247, 55255>>,
     <<55259, 55264>>, <<55276, 55284>>, <<55287, 55295>>, <<55306, 55313>>,
     <<55318, 55324>>, <<55335, 55343>>, <<55348, 55354>>, <<55364, 55370>>,
     <<55378, 55384>>, <<55393, 55402>>, <<55408, 55414>> >>
OffsetStripes ==
  << <<55200, 55208>>, <<55218, 55224>>, <<55230, 55236>>, <<55247, 55255>>,
     <<55259, 55266>>, <<55276, 55284>>, <<55287, 55295>>, <<55306, 55313>>,
     <<55318, 55324>>, <<55335, 55343>>, <<55348, 55354>>, <<55364, 55370>>,
     <<55378, 55384>>, <<55393, 55402>>, <<55407, 55414>> >>

in_stripe_closed(t, stripes) ==
  \E j \in 1 .. Len(stripes) :
    ~RLt(t, Z(stripes[j][1])) /\ ~RLt(Z(stripes[j][2]), t)

\* (lo < t) & (t < hi) for one of the intervals
in_stripe(t, stripes) ==
  \E j \in 1 .. Len(stripes) :
    RLt(Z(stripes[j][1]), t) /\ RLt(t, Z(stripes[j][2]))

stripe_mask(times, stripes) ==
  Array([k \in 1 .. Len(times) |-> in_stripe(times[k], stripes)])

\* UnivariateSpline(x, y, k=5): the points it is fitted to; it raises for
\* fewer than k + 1 points
UnivariateSpline(x, y) ==
  IF Len(x) > 5 THEN [x |-> x, y |-> y, raised |-> FALSE]
  ELSE [x |-> x, y |-> y, raised |-> TRUE]

\* the fit values files a SplineFitter can load: gains, offsets and the mjd
\* arrays of the orbits
GainLevels == {One, Z(2), Z(50)}
FitvalGains == [1 .. NumFitvals -> GainLevels]
FitvalOffsets ==
  { [k \in 1 .. NumFitvals |-> Zero],
    [k \in 1 .. NumFitvals |-> Z(k)],
    [k \in 1 .. NumFitvals |-> IF k = 1 THEN Z(-100) ELSE Z(3)] }
FitvalTimes ==
  { [k \in 1 .. NumFitvals |-> <<Z(55199 + k)>>],
    [k \in 1 .. NumFitvals |-> <<Z(55204 + k)>>],
    [k \in 1 .. NumFitvals |-> <<Z(55198 + k), Z(55200 + k), Z(55199 + k), Z(55200 + k)>>],
    [k \in 1 .. NumFitvals |-> <<Z(55413 + k), Z(55406 + k), Z(55407 + k)>>] }
NineAndOne == [k \in 1 .. 10 |-> IF k = 10 THEN Z(50) ELSE One]
LongFitvals ==
  { [all_gains |-> g, all_offsets |-> o,
     all_mjd_vals |-> [k \in 1 .. 10 |-> <<Z(55192 + 2 * k)>>]] :
      g \in {NineAndOne, [k \in 1 .. 10 |-> IF k = 3 THEN Z(50) ELSE Z(k % 2)]},
      o \in {[k \in 1 .. 10 |-> Z(7)], [k \in 1 .. 10 |-> IF k = 5 THEN Z(-9) ELSE Z(7)]} }
FitvalFiles ==
  { [all_gains |-> g, all_offsets |-> o, all_mjd_vals |-> t] :
      g \in FitvalGains, o \in FitvalOffsets, t \in FitvalTimes }
  \cup LongFitvals

NoSpline == [phase |-> "none"]

CoadderVars == <<files, moon_stripe_inds, galaxy_mask_inds, pc, it, iter,
                 fit_pos, add_pos, order, gains, offsets, orbit_sizes,
                 all_gains, all_offsets, numerator, denominator, fsm, unc_fsm,
                 fsm_prev, saved, log, fit_input, fit_calls, nonfinite, u,
                 theta>>

\* SplineFitter._clean_data called on the loaded fit values
call_clean_data ==
  /\ sf.phase = "loaded"
  /\ sf' = [phase |-> "cleaned", file |-> sf.file,
            cleaned |-> clean_data(sf.file.all_gains, sf.file.all_offsets,
                                   sf.file.all_mjd_vals)]
  /\ UNCHANGED CoadderVars

\* SplineFitter.fit_spline: _load_fitvals, _clean_data, the stripe masks and
\* the two splines
fit_spline ==
  /\ sf.phase = "loaded"
  /\ \E c \in {clean_data(sf.file.all_gains, sf.file.all_offsets,
                          sf.file.all_mjd_vals)} :
       LET stripe_gains == stripe_mask(c.times_gain_masked, GainStripes)
           stripe_offsets == stripe_mask(c.times_offset_masked, OffsetStripes)
           spl_gain == UnivariateSpline(Unmasked(c.times_gain_masked, stripe_gains),
                                        Unmasked(c.gains_masked, stripe_gains))
       IN  sf' = [phase |-> "fitted", file |-> sf.file, cleaned |-> c,
                  stripe_gains |-> stripe_gains,
                  stripe_offsets |-> stripe_offsets,
                  spl_gain |-> spl_gain,
                  spl_offset |->
                    IF spl_gain.raised THEN "None"
                    ELSE UnivariateSpline(
                           Unmasked(c.times_offset_masked, stripe_offsets),
                           Unmasked(c.offsets_masked, stripe_offsets))]
  /\ UNCHANGED CoadderVars


\* ------------------------------------------------------- specifications
RunOrder == [k \in 1 .. NumOrbits |-> k - 1]
AnyOrder == {s \in [1 .. NumOrbits -> Orbits] :
               \A a, b \in 1 .. NumOrbits : s[a] = s[b] => a = b}

\* Coadder.__init__ and the first lines of run: zeroed buffers and fit arrays
Constructed ==
  /\ files \in [Orbits -> OrbitLib]
  /\ moon_stripe_inds \in {{}, {1}}
  /\ theta \in ThetaLib
  /\ galaxy_mask_inds = mask_galaxy(theta)
  /\ it = 0 /\ iter = 0 /\ fit_pos = 0 /\ add_pos = 0
  /\ gains = [o \in Orbits |-> Zero]
  /\ offsets = [o \in Orbits |-> Zero]
  /\ orbit_sizes = [o \in Orbits |-> 0]
  /\ all_gains = <<>> /\ all_offsets = <<>>
  /\ numerator = ZeroMap /\ denominator = ZeroMap
  /\ fsm = set_output_filenames(0).fsm
  /\ unc_fsm = set_output_filenames(0).unc_fsm
  /\ fsm_prev = [file |-> <<"unset", 0>>, mapdata |-> ZeroMap]
  /\ saved = <<>> /\ log = <<>>
  /\ fit_input = [o \in Orbits |-> <<>>]
  /\ fit_calls = [o \in Orbits |-> 0]
  /\ nonfinite = {}
  /\ u = NoCall

Init == Constructed /\ pc = "fit" /\ order = RunOrder /\ sf = NoSpline
InitAnyOrder ==
  Constructed /\ pc = "fit" /\ order \in AnyOrder /\ sf = NoSpline
InitDirect == Constructed /\ pc = "direct" /\ order = RunOrder /\ sf = NoSpline

\* a SplineFitter constructed on a fit values file; no Coadder runs
InitSpline ==
  /\ Constructed /\ pc = "spline" /\ order = RunOrder
  /\ files = [o \in Orbits |-> OrbitFile(<<1, 2>>, <<1, 1>>, <<0, 1>>,
                                         (0 :> 1) @@ (1 :> 2))]
  /\ moon_stripe_inds = {} /\ galaxy_mask_inds = {}
  /\ sf \in {[phase |-> "loaded", file |-> f] : f \in FitvalFiles}

Next ==
  \/ fit_initial_orbit
  \/ fit_adjusted_orbit
  \/ archive_fits
  \/ add_orbit
  \/ normalize
  \/ save_maps
  \/ next_iteration

NextDirect ==
  \/ call_add_file
  \/ call_normalize
  \/ call_chi_sq
  \/ call_iterate_fit
  \/ call_load_zodi_orbit
  \/ call_weighted_mean_filter_wraparound

NextSpline ==
  \/ call_clean_data
  \/ fit_spline

Spec == Init /\ [][Next]_vars
SpecAnyOrder == InitAnyOrder /\ [][Next]_vars
SpecDirect == InitDirect /\ [][NextDirect]_vars
SpecSpline == InitSpline /\ [][NextSpline]_vars

\* ---------------------------------------------------------------- claims
AllUncsZero(orbit_num) ==
  \A k \in 1 .. Len(files[orbit_num].pixel_unc) :
    files[orbit_num].pixel_unc[k] = Zero

HasSamples(orbit_num) == Len(initial_fit_data(orbit_num)) > 0

Fitted(orbit_num) ==
  \E k \in 1 .. Len(log) : log[k].op = "fit" /\ log[k].orbit = orbit_num

FittedThisIteration(orbit_num) ==
  \E k \in 1 .. fit_pos : order[k] = orbit_num

NonNegative(a) == IsFinite(a) /\ ~RLt(a, Zero)

\* the buffers add_file builds from zeroed buffers with the orbits of this
\* iteration only
FreshBuffers ==
  LET acc[j \in 0 .. NumOrbits] ==
        IF j = 0 THEN [numerator |-> ZeroMap, denominator |-> ZeroMap]
        ELSE CHOOSE b \in {add_file(acc[j - 1], j - 1, gains[j - 1],
                                    offsets[j - 1])} : TRUE
  IN  acc[NumOrbits]

\* C1: the map persisted at the end of an iteration is, at every pixel that
\* received a sample, the inverse-variance weighted mean of the floored
\* residuals that the orbits contributed in that iteration: the buffers hold
\* the sums over this iteration's orbits and the map is their quotient.
C1_MapOfThisIteration ==
  pc = "advance" =>
    /\ numerator = FreshBuffers.numerator
    /\ denominator = FreshBuffers.denominator
    /\ \A p \in Pixels :
         FreshBuffers.denominator[p] # Zero =>
           saved[Len(saved) - 1].mapdata[p] =
             RDiv(FreshBuffers.numerator[p], FreshBuffers.denominator[p])

\* C2: after normalize, a pixel whose denominator is 0 holds 0 in the map and
\* in the uncertainty map; any other pixel holds numerator/denominator in the
\* map and 1/denominator in the uncertainty map.
C2_Normalize ==
  (pc = "returned" /\ u.op = "normalize") =>
    \A p \in Pixels :
      IF denominator[p] = Zero
      THEN fsm.mapdata[p] = Zero /\ unc_fsm.mapdata[p] = Zero
      ELSE /\ IsFinite(fsm.mapdata[p])
           /\ RMul(fsm.mapdata[p], denominator[p]) = numerator[p]
           /\ RMul(unc_fsm.mapdata[p], denominator[p]) = One

C2_Witness ==
  /\ pc = "returned" /\ u.op = "normalize" /\ u.calls = MaxCalls
  /\ \E p, q \in Pixels :
       /\ denominator[p] = Zero
       /\ denominator[q] # Zero /\ numerator[q] # Zero
       /\ fsm.mapdata[q] # numerator[q]

\* C3: a call of add_file with gain 0, or for an orbit whose uncertainties are
\* all zero, changes neither buffer.
C3_SkippedOrbit ==
  [][(/\ u'.op = "add_file"
      /\ u'.calls = u.calls + 1
      /\ (u'.gain = Zero \/ AllUncsZero(u'.orbit)))
     => (numerator' = numerator /\ denominator' = denominator)]_vars

C3_Witness ==
  /\ u.op = "add_file" /\ u.calls = MaxCalls
  /\ u.gain = Zero
  /\ HasSamples(u.orbit) /\ ~AllUncsZero(u.orbit)
  /\ \E p \in Pixels : numerator[p] # Zero /\ denominator[p] # Zero

\* C4: iterate_fit on an orbit with no data left after masking returns gain 0
\* and offset 0 without calling the minimizer and without raising, whatever
\* the number of passes asked for.
C4_EmptyFit ==
  (u.op = "iterate_fit" /\ Len(FitterArgs(u.orbit).raw_data) = 0) =>
    /\ u.fit.gain = Zero /\ u.fit.offset = Zero
    /\ u.fit.calls = 0
    /\ ~u.fit.raised

C4_Witness ==
  /\ u.op = "iterate_fit" /\ u.n = MaxRefine
  /\ Len(files[u.orbit].pixel_value) > 0
  /\ Len(FitterArgs(u.orbit).raw_data) = 0

\* C5: an orbit that has samples after masking but whose uncertainties are
\* all zero gets gain 0 and offset 0 from its fit, and the minimizer is not
\* run for it.
C5_ZeroUncertaintyFit ==
  \A o \in Orbits :
    (Fitted(o) /\ HasSamples(o) /\ AllUncsZero(o)) =>
      gains[o] = Zero /\ offsets[o] = Zero /\ fit_calls[o] = 0

\* C6: chi_sq is the mean over the samples of the squared residual divided by
\* the square of the mean uncertainty: cost * n * mean(sigma)^2 is the sum
\* of the squared residuals.
C6_CostScaling ==
  LET a == FitterArgs(u.orbit)
      n == Len(a.raw_data)
      residual == [k \in 1 .. n |->
                     RSub(a.raw_data[k],
                          RAdd(RMul(a.zodi_data[k], u.params[1]), u.params[2]))]
      squares == [k \in 1 .. n |-> RSquare(residual[k])]
  IN  (/\ u.op = "chi_sq" /\ n > 0
       /\ IsFinite(RMean(a.raw_uncs)) /\ RMean(a.raw_uncs) # Zero)
      => RMul(RMul(u.cost, Z(n)), RSquare(RMean(a.raw_uncs))) = RSum(squares)

\* the map persisted at the end of the iteration before this one and the
\* gains archived in it
PersistedMap == saved[2 * iter - 1].mapdata
ArchivedGain(orbit_num) == all_gains[iter][orbit_num]

ExpectedInput(orbit_num) ==
  LET f == files[orbit_num]
      raw == Masked(f.pixel_value, f.hp_pixel_index)
      pix == Masked(f.hp_pixel_index, f.hp_pixel_index)
  IN  Array([k \in 1 .. Len(raw) |->
               RSub(raw[k], RMul(PersistedMap[pix[k]], ArchivedGain(orbit_num)))])

ExpectedFit(orbit_num) ==
  LET a == FitterArgs(orbit_num)
      Fit(data) == iterate_fit(a.zodi_data, data, a.raw_uncs, 1)
  IN  Value1(ExpectedInput(orbit_num), Fit)

\* C7: in every iteration after the first, whatever the order the orbits are
\* fitted in, the data fitted for an orbit are its masked samples minus the
\* previous iteration's persisted map at its pixels times that orbit's own
\* gain of the previous iteration, and the stored gain and offset are the fit
\* of those data: the fits of one iteration do not depend on each other.
C7_AdjustedFit ==
  (iter > 0 /\ pc \in {"fit", "archive"}) =>
    \A o \in Orbits :
      FittedThisIteration(o) =>
        /\ fit_input[o] = ExpectedInput(o)
        /\ \E r \in {ExpectedFit(o)} :
             gains[o] = r.gain /\ offsets[o] = r.offset

C7_Witness ==
  /\ iter > 0 /\ pc = "archive" /\ order # RunOrder
  /\ \E o \in Orbits :
       /\ fit_input[o] # initial_fit_data(o)
       /\ ArchivedGain(o) # One
       /\ ArchivedGain(o) # ArchivedGain(order[1])

\* the events of iteration k in the order run performs them
IterationEvents(k) ==
  [j \in 1 .. NumOrbits |-> [op |-> "fit", iter |-> k, orbit |-> j - 1]]
  \o <<[op |-> "archive", iter |-> k, orbit |-> -1]>>
  \o [j \in 1 .. NumOrbits |-> [op |-> "add", iter |-> k, orbit |-> j - 1]]
  \o <<[op |-> "normalize", iter |-> k, orbit |-> -1],
       [op |-> "save", iter |-> k, orbit |-> -1],
       [op |-> "advance", iter |-> k, orbit |-> -1]>>

Schedule ==
  LET upto[k \in 0 .. Iterations] ==
        IF k = 0 THEN <<>> ELSE upto[k - 1] \o IterationEvents(k - 1)
  IN  upto[Iterations]

\* the guard of the step run takes next, while it has not returned
Runnable ==
  \/ pc = "fit" /\ fit_pos < NumOrbits
  \/ pc = "add" /\ add_pos < NumOrbits
  \/ pc \in {"archive", "normalize", "save", "advance"}

\* C8: run performs, for each iteration in turn, the fit of every orbit, the
\* archiving of the fits, the accumulation of every orbit, normalize, one
\* save of the map and of the uncertainty map under the iteration's number,
\* and the advance to the next iteration, whose previous map is the map just
\* persisted; it stops after the configured number of iterations.
C8_Schedule ==
  /\ Len(log) <= Len(Schedule)
  /\ log = SubSeq(Schedule, 1, Len(log))
  /\ (pc = "done") = (log = Schedule)
  /\ pc # "done" => Runnable
  /\ pc = "done" => it = Iterations /\ iter = Iterations
  /\ Len(saved) = 2 * (IF pc = "advance" THEN iter + 1 ELSE iter)
  /\ \A k \in 0 .. (Len(saved) \div 2) - 1 :
       /\ saved[2 * k + 1].file = <<map_file, k>>
       /\ saved[2 * k + 2].file = <<unc_file, k>>
  /\ iter > 0 => fsm_prev = saved[2 * iter - 1]
  /\ fsm.file = <<map_file, iter>> /\ unc_fsm.file = <<unc_file, iter>>

C8_Witness ==
  /\ pc = "done" /\ log = Schedule
  /\ Len(saved) = 2 * Iterations
  /\ saved[1].mapdata # saved[3].mapdata

\* C9: no entry of the numerator, of the denominator or of a map is negative:
\* a residual below zero enters the numerator as 0.
C9_NonNegative ==
  /\ \A p \in Pixels :
       /\ NonNegative(numerator[p]) /\ NonNegative(denominator[p])
       /\ NonNegative(fsm.mapdata[p]) /\ NonNegative(unc_fsm.mapdata[p])
  /\ \A k \in 1 .. Len(saved) : \A p \in Pixels : NonNegative(saved[k].mapdata[p])

C9_Witness ==
  /\ pc = "normalize" /\ iter = 0
  /\ \E o \in Orbits :
       LET zs == residuals(o, gains[o], offsets[o])
           uncs == Masked(files[o].pixel_unc, files[o].hp_pixel_index)
           pix == Masked(files[o].hp_pixel_index, files[o].hp_pixel_index)
       IN  /\ gains[o] # Zero
           /\ \E k \in 1 .. Len(zs) :
                /\ RLt(zs[k], Zero) /\ uncs[k] # Zero
                /\ \A m \in Orbits \ {o} : \A j \in 1 .. Len(files[m].hp_pixel_index) :
                     files[m].hp_pixel_index[j] # pix[k]
                /\ numerator[pix[k]] = Zero
                /\ denominator[pix[k]] # Zero

\* C10: no division in the fits produces a non-finite value: the cost, the
\* adjusted data and the calibrated data stay finite.
C10_AllFinite == nonfinite = {}

\* theta strictly inside, and inside or on the ends of, the band from 0.4 pi
\* to 0.6 pi; theta[p] is <<n, d>> for n/d times pi
InsideBand(p) ==
  4 * theta[p][2] < 10 * theta[p][1] /\ 10 * theta[p][1] < 6 * theta[p][2]
OnBandEnd(p) ==
  4 * theta[p][2] = 10 * theta[p][1] \/ 10 * theta[p][1] = 6 * theta[p][2]

Excluded == moon_stripe_inds \cup galaxy_mask_inds
OffMask(orbit_num) ==
  Ascending({k \in 1 .. Len(files[orbit_num].hp_pixel_index) :
               files[orbit_num].hp_pixel_index[k] \notin Excluded})

\* C14: at every pixel of the combined mask the numerator, the denominator
\* and every map and uncertainty map hold 0; the data handed to the fitter
\* are those of the samples off the mask, in file order, and in later
\* iterations the previous map is read at the pixels of the same samples.
C14_ExcludedPixels ==
  /\ \A p \in Excluded :
       /\ numerator[p] = Zero /\ denominator[p] = Zero
       /\ fsm.mapdata[p] = Zero /\ unc_fsm.mapdata[p] = Zero
       /\ \A k \in 1 .. Len(saved) : saved[k].mapdata[p] = Zero
  /\ \A o \in Orbits :
       LET keep == OffMask(o)
           f == files[o]
       IN  /\ Fitted(o) => /\ Len(fit_input[o]) = Len(keep)
                           /\ orbit_sizes[o] = Len(keep)
           /\ (Fitted(o) /\ iter = 0) =>
                \A j \in 1 .. Len(keep) : fit_input[o][j] = f.pixel_value[keep[j]]
           /\ (FittedThisIteration(o) /\ iter > 0) =>
                \A j \in 1 .. Len(keep) :
                  fit_input[o][j] =
                    RSub(f.pixel_value[keep[j]],
                         RMul(fsm_prev.mapdata[f.hp_pixel_index[keep[j]]],
                              all_gains[iter][o]))

C14_Witness ==
  /\ pc = "archive" /\ iter > 0
  /\ moon_stripe_inds # {} /\ galaxy_mask_inds # {}
  /\ \E o \in Orbits :
       LET f == files[o]
       IN  /\ gains[o] # Zero
           /\ \E k, j \in 1 .. Len(f.hp_pixel_index) :
                /\ f.hp_pixel_index[k] \in Excluded /\ f.pixel_unc[k] # Zero
                /\ f.hp_pixel_index[j] \notin Excluded
                /\ denominator[f.hp_pixel_index[j]] # Zero

\* C15: the array load_zodi_orbit returns holds at position i the template
\* value of pixel pixel_inds[i], in whatever order the file lists its
\* samples.
C15_TemplateOfOwnPixel ==
  u.op = "load_zodi_orbit" =>
    LET f == files[u.orbit]
    IN  /\ Len(u.out) = Len(f.hp_pixel_index)
        /\ \A i \in 1 .. Len(u.out) : u.out[i] = f.zodi[f.hp_pixel_index[i]]

\* C16: for an odd window size 2 * step + 1 not larger than the array, the
\* filter returns at every index p the weighted mean of the elements at
\* indices p - step .. p + step taken modulo the length, each with the
\* weight of the same index.
C16_WrapAround ==
  u.op = "weighted_mean_filter_wraparound" =>
    LET n == Len(u.array)
        step == (u.size - 1) \div 2
        Ind(p) == [d \in 1 .. u.size |-> ((p - step + (d - 1)) % n) + 1]
        Mean(p) ==
          RDiv(RSum([d \in 1 .. u.size |->
                       RMul(u.array[Ind(p)[d]], u.weights[Ind(p)[d]])]),
               RSum([d \in 1 .. u.size |-> u.weights[Ind(p)[d]]]))
    IN  /\ Len(u.out) = n
        /\ \A p \in 0 .. n - 1 : u.out[p + 1] = Mean(p)

\* the positions of a whose z-score against the whole of a is not beyond 1
\* in absolute value: (n a[k] - sum)^2 <= n sum of squares - sum^2
Survivors(a) ==
  LET n == Z(Len(a))
      sum == RSum(a)
      spread == RSub(RMul(n, RSum([k \in 1 .. Len(a) |-> RSquare(a[k])])),
                     RSquare(sum))
  IN  Ascending({k \in 1 .. Len(a) :
                   ~RLt(spread, RSquare(RSub(RMul(n, a[k]), sum)))})

StrictlyInside(t, stripes) ==
  \E j \in 1 .. Len(stripes) :
    stripes[j][1] * t[2] < t[1] /\ t[1] < stripes[j][2] * t[2]
InsideOrOnEnd(t, stripes) ==
  \E j \in 1 .. Len(stripes) :
    stripes[j][1] * t[2] <= t[1] /\ t[1] <= stripes[j][2] * t[2]

\* C12 as stated: fit_spline excludes from the gain fit every entry whose
\* timestamp lies in one of the moon-stripe intervals, the ends included,
\* and from the offset fit every entry in one of the intervals of the offset
\* list, the ends included; the others are kept.
C12_ClosedStripes ==
  sf.phase = "fitted" =>
    /\ \A k \in 1 .. Len(sf.stripe_gains) :
         sf.stripe_gains[k] = InsideOrOnEnd(sf.cleaned.times_gain_masked[k], GainStripes)
    /\ \A k \in 1 .. Len(sf.stripe_offsets) :
         sf.stripe_offsets[k] = InsideOrOnEnd(sf.cleaned.times_offset_masked[k], OffsetStripes)

\* C12: fit_spline excludes from the gain fit exactly the entries whose
\* timestamp lies strictly inside one of the moon-stripe intervals, and from
\* the offset fit exactly those strictly inside one of the intervals of the
\* offset list; an entry at an end of an interval is kept, and the splines
\* are fitted to the entries kept, in order.
C12_OpenStripes ==
  sf.phase = "fitted" =>
    LET c == sf.cleaned
        g == Ascending({k \in 1 .. Len(c.times_gain_masked) :
                          ~StrictlyInside(c.times_gain_masked[k], GainStripes)})
        o == Ascending({k \in 1 .. Len(c.times_offset_masked) :
                          ~StrictlyInside(c.times_offset_masked[k], OffsetStripes)})
    IN  /\ \A k \in 1 .. Len(sf.stripe_gains) :
             sf.stripe_gains[k] = StrictlyInside(c.times_gain_masked[k], GainStripes)
        /\ \A k \in 1 .. Len(sf.stripe_offsets) :
             sf.stripe_offsets[k] = StrictlyInside(c.times_offset_masked[k], OffsetStripes)
        /\ sf.spl_gain.x = [j \in 1 .. Len(g) |-> c.times_gain_masked[g[j]]]
        /\ sf.spl_gain.y = [j \in 1 .. Len(g) |-> c.gains_masked[g[j]]]
        /\ ~sf.spl_gain.raised =>
             /\ sf.spl_offset.x = [j \in 1 .. Len(o) |-> c.times_offset_masked[o[j]]]
             /\ sf.spl_offset.y = [j \in 1 .. Len(o) |-> c.offsets_masked[o[j]]]

C12_Witness ==
  /\ sf.phase = "fitted" /\ ~sf.spl_gain.raised /\ ~sf.spl_offset.raised
  /\ \E k \in 1 .. Len(sf.spl_gain.x) : sf.spl_gain.x[k] = Z(55200)
  /\ \E k \in 1 .. Len(sf.spl_offset.x) : sf.spl_offset.x[k] = Z(55208)
  /\ \E k \in 1 .. Len(sf.stripe_gains) : sf.stripe_gains[k]
  /\ \E k \in 1 .. Len(sf.stripe_offsets) :
       sf.stripe_offsets[k] /\ sf.cleaned.times_offset_masked[k] = Z(55206)

====
